---- MODULE Spec2Model ----
(***************************************************************************)
(* Model of tree_selection_mwis_optimizer.py: a script that loads tree     *)
(* candidates, builds the spatial conflict graph (pairs closer than        *)
(* SPACING_M), encodes a maximum-weight independent set problem for the    *)
(* CBC solver, decodes the solver's values into keep flags and exports     *)
(* them.                                                                   *)
(*                                                                         *)
(* Coordinates: every candidate lies on one meridian (equal longitude),    *)
(* where the haversine formula 2R asin(sqrt(sin^2(dlat/2))) is exactly     *)
(* R*|dlat|; a latitude is held as its arc length in metres, a multiple of *)
(* 5.  A non-finite coordinate is the value NaN.                           *)
(* Solver values are held in tenths (10 = 1.0), so 0.5 is 5.               *)
(***************************************************************************)
EXTENDS Integers, Sequences, FiniteSets, TLC

\* ---------------------------------------------------------------- bounds
MaxN == 3

\* ------------------------------------------------------ program constants
SPACING_M == 10
NaN == 0 - 1

Weights == {0 - 1, 0, 1, 2}
\* the property columns of the input: all three, no 'W', none
ColumnSets == {{"H", "H_m", "W"}, {"H", "H_m"}, {}}
\* arc lengths in metres: pairs 0, 5, 10 (= SPACING_M) and 15 m apart
Latitudes == {0, 5, 15}
\* statuses of solver.Solve() without a solution; INFEASIBLE and UNBOUNDED
\* cannot arise: all variables are 0/1 and the all-zero assignment satisfies
\* every constraint y[i] + y[j] <= 1.
FailureStatuses == {"ABNORMAL", "NOT_SOLVED"}
Statuses == {"OPTIMAL", "FEASIBLE"} \cup FailureStatuses

VARIABLES pc, N, coords, columns, i, neighbors, total_conflicts, W,
          y, objective, constraints, status, solution, objective_value,
          keep_flags, outputs

vars == <<pc, N, coords, columns, i, neighbors, total_conflicts, W,
          y, objective, constraints, status, solution, objective_value,
          keep_flags, outputs>>

Idx(n) == 0..(n - 1)

Abs(x) == IF x < 0 THEN 0 - x ELSE x

\* haversine_m on one meridian (lon1 = lon2); NaN propagates through the
\* arithmetic.
haversine_m(lat1, lon1, lat2, lon2) ==
    IF lat1 = NaN \/ lat2 = NaN \/ lon1 = NaN \/ lon2 = NaN
    THEN NaN
    ELSE Abs(lat2 - lat1)

IsConflictLe(d, s) == d # NaN /\ d <= s

\* di < SPACING_M ; a comparison with NaN is False.
IsConflict(d, s) == d # NaN /\ d < s

SliceFromSelf(k, n) == [c \in 1..(n - k) |-> k + c - 1]

\* the indices i + 1 + c of the slice coords[i+1:], in order.
SliceIndices(k, n) == [c \in 1..(n - k - 1) |-> k + c]

\* neighbors[i] after iteration i of the conflict graph loop.
ConflictIndices(k, n, co) ==
    LET Near(j) == IsConflict(haversine_m(co[k][1], co[k][2], co[j][1], co[j][2]),
                              SPACING_M)
    IN SelectSeq(SliceIndices(k, n), Near)

RECURSIVE SumLen(_, _)
SumLen(nb, n) == IF n = 0 THEN 0 ELSE Len(nb[n - 1]) + SumLen(nb, n - 1)

RECURSIVE Dot(_, _, _)
\* solver.Sum(c[i] * v[i] for i in range(n))
Dot(c, v, n) == IF n = 0 THEN 0 ELSE c[n - 1] * v[n - 1] + Dot(c, v, n - 1)

RECURSIVE PairsFrom(_, _, _)
\* for i in range(N): for j in neighbors[i]: solver.Add(y[i] + y[j] <= 1)
\* the constraints of rows k..n-1, in the order the loops add them.
PairsFrom(nb, k, n) ==
    IF k >= n THEN <<>>
    ELSE [c \in 1..Len(nb[k]) |-> <<k, nb[k][c]>>] \o PairsFrom(nb, k + 1, n)

EmitConstraintsSkipRow(nb, n) == PairsFrom(nb, 1, n)

EmitConstraintsTwice(nb, n) == PairsFrom(nb, 0, n) \o PairsFrom(nb, 0, n)

EmitConstraints(nb, n) == PairsFrom(nb, 0, n)

ObjectiveMin(w) == [sense |-> "min", coef |-> w]

ObjectiveCount(w) == [sense |-> "max", coef |-> [k \in DOMAIN w |-> 1]]

\* solver.Maximize(solver.Sum(W[i] * y[i] for i in range(N)))
Objective(w) == [sense |-> "max", coef |-> w]

\* BoolVar values the solver can return, in tenths.
Assignments(n) == [Idx(n) -> {0, 10}]

\* y[i] + y[j] <= 1 for every constraint added to the solver.
Feasible(v, cons) ==
    \A c \in 1..Len(cons) : v[cons[c][1]] + v[cons[c][2]] <= 10

FeasibleSet(n, cons) == {v \in Assignments(n) : Feasible(v, cons)}

Better(obj, a, b, n) ==
    IF obj.sense = "max" THEN Dot(obj.coef, a, n) >= Dot(obj.coef, b, n)
    ELSE Dot(obj.coef, a, n) <= Dot(obj.coef, b, n)

OptimalSet(n, obj, cons) ==
    {v \in FeasibleSet(n, cons) :
        \A u \in FeasibleSet(n, cons) : Better(obj, v, u, n)}

\* What solver.Solve() leaves behind for a status: an optimal assignment, any
\* feasible assignment, or no solution (solution_value() then reads 0.0).
SolverOutcomes(st, n, obj, cons) ==
    IF st = "OPTIMAL" THEN OptimalSet(n, obj, cons)
    ELSE IF st = "FEASIBLE" THEN FeasibleSet(n, cons)
    ELSE {[k \in Idx(n) |-> 0]}

DecodeBelow(v) == IF v < 5 THEN 1 ELSE 0

\* int(y[i].solution_value() > 0.5)
Decode(v) == IF v > 5 THEN 1 ELSE 0

Init ==
    /\ pc = "build"
    /\ N \in 0..MaxN
    /\ coords \in [Idx(N) -> {<<lat, 0>> : lat \in Latitudes}]
    /\ columns \in ColumnSets
    /\ i = 0
    /\ neighbors = [k \in Idx(N) |-> <<>>]
    /\ total_conflicts = 0
    /\ W = <<>>
    /\ y = 0
    /\ objective = Objective(<<>>)
    /\ constraints = <<>>
    /\ status = "NOT_RUN"
    /\ solution = <<>>
    /\ objective_value = <<>>
    /\ keep_flags = <<>>
    /\ outputs = {}

\* The same start, with coordinates that may be non-finite.
InitUnvalidated ==
    /\ pc = "build"
    /\ N \in 0..MaxN
    /\ coords \in [Idx(N) -> {<<lat, 0>> : lat \in Latitudes \cup {NaN}}]
    /\ columns \in ColumnSets
    /\ i = 0
    /\ neighbors = [k \in Idx(N) |-> <<>>]
    /\ total_conflicts = 0
    /\ W = <<>>
    /\ y = 0
    /\ objective = Objective(<<>>)
    /\ constraints = <<>>
    /\ status = "NOT_RUN"
    /\ solution = <<>>
    /\ objective_value = <<>>
    /\ keep_flags = <<>>
    /\ outputs = {}

\* One iteration of "for i in range(N)" of the conflict graph loop.
BuildStep ==
    /\ pc = "build"
    /\ i < N
    /\ neighbors' = [neighbors EXCEPT ![i] = @ \o ConflictIndices(i, N, coords)]
    /\ i' = i + 1
    /\ UNCHANGED <<pc, N, coords, columns, total_conflicts, W, y, objective,
                   constraints, status, solution, objective_value, keep_flags,
                   outputs>>

\* total_conflicts, then the weight column: 'W', else 'H_m', else ValueError.
SelectWeights ==
    /\ pc = "build"
    /\ i = N
    /\ total_conflicts' = SumLen(neighbors, N)
    /\ IF "W" \in columns \/ "H_m" \in columns
       THEN /\ W' \in [Idx(N) -> Weights]
            /\ pc' = "encode"
       ELSE /\ W' = W
            /\ pc' = "ValueError"
    /\ UNCHANGED <<N, coords, columns, i, neighbors, y, objective, constraints,
                   status, solution, objective_value, keep_flags, outputs>>

\* CreateSolver('CBC') (an Exception when no solver is returned), then the
\* BoolVars, the objective and the constraints.
Encode ==
    /\ pc = "encode"
    /\ \/ /\ pc' = "Exception"
          /\ UNCHANGED <<y, objective, constraints>>
       \/ /\ y' = N
          /\ objective' = Objective(W)
          /\ constraints' = EmitConstraints(neighbors, N)
          /\ pc' = "solve"
    /\ UNCHANGED <<N, coords, columns, i, neighbors, total_conflicts, W, status,
                   solution, objective_value, keep_flags, outputs>>

\* status = solver.Solve(); objective_value is read only when OPTIMAL.
Solve ==
    /\ pc = "solve"
    /\ \E st \in Statuses :
         /\ status' = st
         /\ solution' \in SolverOutcomes(st, y, objective, constraints)
         /\ objective_value' =
               IF st = "OPTIMAL" THEN <<Dot(objective.coef, solution', y)>>
               ELSE objective_value
    /\ pc' = "save"
    /\ UNCHANGED <<N, coords, columns, i, neighbors, total_conflicts, W, y,
                   objective, constraints, keep_flags, outputs>>

\* keep_flags, the summary, then the two exports.  The summary divides
\* kept_count by N: for N = 0 that raises ZeroDivisionError when the sum of
\* the empty 'keep' column is a Python scalar and prints nan when it is a
\* numpy scalar, so both outcomes are possible.  The CSV export selects the
\* columns 'H', 'H_m' and 'W' and raises KeyError when one is missing, after
\* the GeoJSON file has been written.
SaveResults ==
    /\ pc = "save"
    /\ keep_flags' = [k \in Idx(N) |-> Decode(solution[k])]
    /\ \/ /\ N = 0
          /\ pc' = "ZeroDivisionError"
          /\ outputs' = outputs
       \/ /\ {"H", "H_m", "W"} \subseteq columns
          /\ pc' = "done"
          /\ outputs' = {"geojson", "csv"}
       \/ /\ ~({"H", "H_m", "W"} \subseteq columns)
          /\ pc' = "KeyError"
          /\ outputs' = {"geojson"}
    /\ UNCHANGED <<N, coords, columns, i, neighbors, total_conflicts, W, y,
                   objective, constraints, status, solution, objective_value>>

Next == BuildStep \/ SelectWeights \/ Encode \/ Solve \/ SaveResults

Spec == Init /\ [][Next]_vars

SpecUnvalidated == InitUnvalidated /\ [][Next]_vars

\* ------------------------------------------------------------ properties
\* keep_flags has been computed (line 112 has run).
Decoded == pc \in {"done", "KeyError", "ZeroDivisionError"}

\* the encoder has run.
Encoded == pc \in {"solve", "save"} \/ Decoded

InList(x, s) == \E k \in 1..Len(s) : s[k] = x

Dist(a, b) == haversine_m(coords[a][1], coords[a][2], coords[b][1], coords[b][2])

Kept == {k \in Idx(N) : keep_flags[k] = 1}

Independent(T) == \A a \in T : \A b \in T : ~InList(b, neighbors[a])

WeightOf(T) == Dot(W, [k \in Idx(N) |-> IF k \in T THEN 1 ELSE 0], N)

\* C1: once row a of the conflict graph is built, for every a < b, b is in
\* neighbors[a] exactly when the distance between points a and b is strictly
\* below SPACING_M; a pair exactly SPACING_M apart is not a conflict.
C1_ConflictSetCorrect ==
    \A a \in Idx(N) : \A b \in Idx(N) :
        (a < i /\ a < b) =>
            (InList(b, neighbors[a]) <=> Dist(a, b) < SPACING_M)

C1_Witness ==
    /\ i = N
    /\ \E a \in Idx(N) : \E b \in Idx(N) :
          a < b /\ Dist(a, b) = SPACING_M /\ ~InList(b, neighbors[a])
    /\ \E a \in Idx(N) : \E b \in Idx(N) :
          a < b /\ Dist(a, b) > SPACING_M /\ ~InList(b, neighbors[a])
    /\ \E a \in Idx(N) : \E b \in Idx(N) :
          a < b /\ Dist(a, b) < SPACING_M /\ InList(b, neighbors[a])

\* C2: when the solver's status is OPTIMAL or FEASIBLE, no stored conflict
\* pair (a, b) has keep_flags[a] and keep_flags[b] both set.
C2_IndependentSet ==
    (Decoded /\ status \in {"OPTIMAL", "FEASIBLE"}) =>
        \A a \in Idx(N) : \A b \in Idx(N) :
            InList(b, neighbors[a]) => ~(keep_flags[a] = 1 /\ keep_flags[b] = 1)

C2_Witness ==
    /\ Decoded
    /\ status = "FEASIBLE"
    /\ \E a \in Idx(N) : \E b \in Idx(N) :
          InList(b, neighbors[a]) /\ keep_flags[a] = 0 /\ keep_flags[b] = 1
    /\ \E a \in Idx(N) : neighbors[a] # <<>> /\ keep_flags[a] = 1

\* C3: when the solver's status reports no optimal or feasible solution for
\* a non-empty input, no keep/remove labeling is produced and nothing is
\* exported.
C3_FailureSurfaced ==
    (N > 0 /\ status \in FailureStatuses) => (~Decoded /\ outputs = {})

\* C4: with status OPTIMAL the kept set is an independent set of the conflict
\* graph and no independent set has a larger total weight.
C4_MaxWeight ==
    (Decoded /\ status = "OPTIMAL") =>
        /\ Independent(Kept)
        /\ \A T \in SUBSET Idx(N) :
              Independent(T) => WeightOf(T) <= WeightOf(Kept)

\* three points, the single conflict (0,1), weights increasing: keep {1, 2}.
C4_Witness ==
    /\ pc = "done"
    /\ status = "OPTIMAL"
    /\ N = 3
    /\ neighbors = [k \in Idx(3) |-> IF k = 0 THEN <<1>> ELSE <<>>]
    /\ W[0] = 1 /\ W[1] = 2 /\ W[2] = 2
    /\ Kept = {1, 2}
    /\ WeightOf(Kept) = 4

NonFinite == \E k \in Idx(N) : coords[k][1] = NaN \/ coords[k][2] = NaN

\* C5: input with a non-finite coordinate is rejected before graph
\* construction begins: no iteration of the conflict graph loop runs, no
\* conflict is stored and no model is built.
C5_RejectedBeforeBuild ==
    NonFinite => (i = 0 /\ pc \notin {"encode", "solve", "save", "done"})

\* C6: the model holds exactly one constraint per stored conflict pair: as
\* many constraints as total_conflicts, each on the two endpoints of a stored
\* pair, and each stored pair in exactly one constraint.
C6_OneConstraintPerPair ==
    Encoded =>
        /\ Len(constraints) = total_conflicts
        /\ \A c \in 1..Len(constraints) :
              /\ constraints[c][1] \in Idx(N)
              /\ InList(constraints[c][2], neighbors[constraints[c][1]])
        /\ \A a \in Idx(N) : \A k \in 1..Len(neighbors[a]) :
              Cardinality({c \in 1..Len(constraints) :
                              constraints[c] = <<a, neighbors[a][k]>>}) = 1

C6_Witness ==
    /\ Encoded
    /\ total_conflicts >= 2
    /\ Len(constraints) = total_conflicts
    /\ \E a \in Idx(N) : neighbors[a] = <<>>

\* C7: at every step the conflict graph holds only pairs (a, b) with
\* 0 <= a < b < N, no pair in both directions, and no index twice in one list.
C7_CanonicalPairs ==
    \A a \in Idx(N) :
        /\ \A k \in 1..Len(neighbors[a]) :
              /\ a < neighbors[a][k]
              /\ neighbors[a][k] < N
              /\ ~InList(a, neighbors[neighbors[a][k]])
        /\ \A k \in 1..Len(neighbors[a]) : \A m \in 1..Len(neighbors[a]) :
              neighbors[a][k] = neighbors[a][m] => k = m

C7_Witness ==
    /\ pc = "build"
    /\ 0 < i /\ i < N
    /\ Len(neighbors[0]) >= 2

\* C8: with status OPTIMAL the total weight of the kept points equals the
\* objective value the solver reports (solver values are in tenths).
C8_ObjectiveMatches ==
    (Decoded /\ status = "OPTIMAL") =>
        objective_value = <<10 * WeightOf(Kept)>>

C8_Witness ==
    /\ Decoded
    /\ status = "OPTIMAL"
    /\ total_conflicts > 0
    /\ Cardinality(Kept) = 2
    /\ objective_value = <<30>>

\* C9 as stated: for N = 1 and any weight the conflict set is empty, the
\* model has no constraint and an optimal result has keep[0] = true.
C9_SinglePointKept ==
    N = 1 =>
        /\ neighbors[0] = <<>>
        /\ constraints = <<>>
        /\ (Decoded /\ status = "OPTIMAL") => keep_flags[0] = 1

\* C9 amended: for N = 1 the conflict set is empty and the model has no
\* constraint; an optimal result has keep[0] = true when the weight is
\* positive and keep[0] = false when it is negative.
C9_SinglePointBySign ==
    N = 1 =>
        /\ neighbors[0] = <<>>
        /\ constraints = <<>>
        /\ (Decoded /\ status = "OPTIMAL") =>
              /\ W[0] > 0 => keep_flags[0] = 1
              /\ W[0] < 0 => keep_flags[0] = 0

C9_Witness ==
    /\ N = 1
    /\ pc = "done"
    /\ status = "OPTIMAL"
    /\ W[0] > 0
    /\ constraints = <<>>
    /\ keep_flags[0] = 1

\* C10: for N = 0 the run ends without error, with no conflicts, a model
\* with no variables and no constraints and an empty keep result.
C10_EmptyInputCompletes ==
    N = 0 =>
        /\ pc \notin {"ValueError", "ZeroDivisionError", "KeyError"}
        /\ total_conflicts = 0
        /\ y = 0
        /\ constraints = <<>>
        /\ keep_flags = <<>>

====
